---- MODULE Spec2Model ----
(***************************************************************************)
(* Model of dnssecfn.py: str_to_owner (owner name to wire form),           *)
(* compute_ds (DS digest of a DNSKEY) and verify_sig (RRSIG validation).   *)
(*                                                                         *)
(* Text is a sequence of character codes, bytes are sequences of 0..255.   *)
(* The cryptographic libraries are modelled as ideal primitives: a hash    *)
(* object is the byte string it has absorbed, a signature is the byte      *)
(* string it was made over, and a key either is the signing key, is some   *)
(* other key, or holds malformed key material.                             *)
(***************************************************************************)
EXTENDS Integers, Sequences, FiniteSets, TLC

VARIABLES
    \* str_to_owner(name)
    name, opc, labels, owner_name,
    \* compute_ds(hash_obj, dnskey)
    hash_objs, ds_calls, ds_last,
    \* verify_sig(logger, rrset, dnskeyset, rrsig)
    rrset, dnskeyset, rrsig, pc, matching_keys, sig_input_data, idx,
    verify_pass, reason, ret, log

ovars == <<name, opc, labels, owner_name>>
dvars == <<hash_objs, ds_calls, ds_last>>
vvars == <<rrset, dnskeyset, rrsig, pc, matching_keys, sig_input_data, idx,
           verify_pass, reason, ret, log>>
vars == <<ovars, dvars, vvars>>

---------------------------------------------------------------------------
(* Bounds of the model *)

MaxNameLen == 5     \* longest presentation name given to str_to_owner
MaxRR == 2          \* most records in the RRset of a verify_sig call
MaxKeys == 2        \* most entries in the dnskeyset of a verify_sig call
MaxCalls == 3       \* most compute_ds calls in one run

\* all sequences over S of length at most n
RECURSIVE SeqsUpTo(_, _)
SeqsUpTo(S, n) ==
    IF n = 0 THEN {<<>>}
    ELSE LET shorter == SeqsUpTo(S, n - 1)
         IN  shorter \cup {Append(s, x) : s \in {t \in shorter : Len(t) = n - 1}, x \in S}

RECURSIVE Concat(_)
Concat(ss) == IF ss = <<>> THEN <<>> ELSE Head(ss) \o Concat(Tail(ss))

---------------------------------------------------------------------------
(* Python built-ins used by the code *)

\* str.lower() on ASCII text
LowerChar(c) == IF c \in 65..90 THEN c + 32 ELSE c
LowerStr(s) == [i \in 1..Len(s) |-> LowerChar(s[i])]

\* str.replace(old, new): left to right, non-overlapping
RECURSIVE Replace(_, _, _)
Replace(s, old, new) ==
    IF Len(s) < Len(old) THEN s
    ELSE IF SubSeq(s, 1, Len(old)) = old
         THEN new \o Replace(SubSeq(s, Len(old) + 1, Len(s)), old, new)
         ELSE <<Head(s)>> \o Replace(Tail(s), old, new)

\* str.split(sep) for a one-character separator: "a.b." gives a, b and the
\* empty string
RECURSIVE SplitFrom(_, _, _)
SplitFrom(s, sep, cur) ==
    IF s = <<>> THEN <<cur>>
    ELSE IF Head(s) = sep
         THEN <<cur>> \o SplitFrom(Tail(s), sep, <<>>)
         ELSE SplitFrom(Tail(s), sep, Append(cur, Head(s)))
Split(s, sep) == SplitFrom(s, sep, <<>>)

\* '%0<width>X' % n: the hexadecimal digits of n, zero-padded to width
RECURSIVE HexDigits(_, _)
HexDigits(n, width) ==
    IF n < 16 /\ width <= 1 THEN <<n>>
    ELSE Append(HexDigits(n \div 16, width - 1), n % 16)

\* bytes.fromhex(digits), for an even number of digits (an odd number raises
\* ValueError; the formats above give it only for values beyond their width)
RECURSIVE FromHex(_)
FromHex(d) ==
    IF Len(d) < 2 THEN <<>>
    ELSE <<16 * d[1] + d[2]>> \o FromHex(SubSeq(d, 3, Len(d)))

\* bytes(text, "utf8"), for code points below 2048
Utf8Char(c) == IF c < 128 THEN <<c>> ELSE <<192 + (c \div 64), 128 + (c % 64)>>
Utf8(s) == Concat([i \in 1..Len(s) |-> Utf8Char(s[i])])

\* comparison of bytes objects: unsigned, lexicographic, a proper prefix first
RECURSIVE BytesLess(_, _)
BytesLess(a, b) ==
    IF b = <<>> THEN FALSE
    ELSE IF a = <<>> THEN TRUE
    ELSE IF Head(a) # Head(b) THEN Head(a) < Head(b)
    ELSE BytesLess(Tail(a), Tail(b))

---------------------------------------------------------------------------
(* str_to_owner *)

Dot == <<46>>
EscapedDot == <<92, 46>>          \* '\\.'  : backslash, dot
TwoBackslashes == <<92, 92>>      \* '\\\\' : backslash, backslash

\* the name is not lower-cased before the escaped dots are masked
MaskEscapedDotsNoLower(n) == Replace(n, EscapedDot, TwoBackslashes)

\* line 37: name.lower().replace('\\.', '\\\\')
MaskEscapedDots(n) == Replace(LowerStr(n), EscapedDot, TwoBackslashes)

\* lines 41-43: what one non-empty label adds to owner_name
LabelWire(label) ==
    LET l == Replace(label, TwoBackslashes, Dot)
    IN  FromHex(HexDigits(Len(l), 2)) \o Utf8(l)

\* lines 39-43: the loop over the labels
RECURSIVE LabelsWire(_)
LabelsWire(ls) ==
    IF ls = <<>> THEN <<>>
    ELSE (IF Len(Head(ls)) > 0 THEN LabelWire(Head(ls)) ELSE <<>>)
         \o LabelsWire(Tail(ls))

str_to_owner(n) == LabelsWire(Split(MaskEscapedDots(n), 46)) \o <<0>>

NameAlphabet == {97, 65, 46, 92}      \* a A . \
Names == SeqsUpTo(NameAlphabet, MaxNameLen)

OwnerIdle ==
    /\ name = <<>>
    /\ opc = "idle"
    /\ labels = <<>>
    /\ owner_name = <<>>

\* line 35-39: owner_name = bytes(); normalise and split the name
OwnerStart ==
    /\ opc = "start"
    /\ labels' = Split(MaskEscapedDots(name), 46)
    /\ owner_name' = <<>>
    /\ opc' = "loop"
    /\ UNCHANGED <<name, dvars, vvars>>

\* lines 39-43: one iteration of the loop over the labels
OwnerLabel ==
    /\ opc = "loop"
    /\ labels # <<>>
    /\ owner_name' = IF Len(Head(labels)) > 0
                     THEN owner_name \o LabelWire(Head(labels))
                     ELSE owner_name
    /\ labels' = Tail(labels)
    /\ UNCHANGED <<name, opc, dvars, vvars>>

\* lines 45-47: the root label, and the return
OwnerFinish ==
    /\ opc = "loop"
    /\ labels = <<>>
    /\ owner_name' = owner_name \o <<0>>
    /\ opc' = "done"
    /\ UNCHANGED <<name, labels, dvars, vvars>>

InitOwner ==
    /\ name \in Names
    /\ opc = "start"
    /\ labels = <<>>
    /\ owner_name = <<>>

---------------------------------------------------------------------------
(* Records, as the parsing module hands them over *)

\* a resource record: owner name, type, TTL and wire RDATA (rec.towire())
Rec(f, t, r) == [fqdn |-> f, rectype |-> t, ttl |-> 60, rdata |-> r]

\* an entry of a dnskeyset, or the argument of compute_ds.  tag is keytag(),
\* mat says what verifying with the key material does: "signer" is the key
\* the signature was made with, "other" is a well-formed different key,
\* "malformed" cannot be loaded by the library.  An entry that is an RRSIG
\* carries keytag as an attribute (line 86), so calling keytag() on it raises
Key(k, t, a, m) ==
    [kind |-> k, fqdn |-> <<97, 46>>, wire |-> <<1, 1, 3, a>>, tag |-> t,
     alg |-> a, mat |-> m]

\* the RRSIG argument.  vdata is verification_data(); signature is the byte
\* string the signature was made over
Sig(k, ts, cov) ==
    [kind |-> k, type_covered |-> 1, original_ttl |-> 300,
     inception |-> 10000, expiration |-> 20000, timestamp |-> ts,
     keytag |-> 1, vdata |-> <<7>>, signature |-> cov]

---------------------------------------------------------------------------
(* compute_ds *)

\* hashlib: digest() of a hash object is determined by what it has absorbed
\* (ideal hash: different inputs give different digests)
Digest(absorbed) == <<"digest", absorbed>>

HashIds == {"h1", "h2"}
DSArgs ==
    {Key("DNSKEY", 1, 8, "signer"), Key("DNSKEY", 2, 13, "signer"),
     [Key("DNSKEY", 1, 8, "signer") EXCEPT !.fqdn = <<65, 46>>],
     Key("RRSIG", 1, 8, "signer")}

NoDS == [hash |-> "", dnskey |-> Key("RRSIG", 0, 0, "other"), outcome |-> "none",
         digest |-> Digest(<<>>)]

DSIdle ==
    /\ hash_objs = [h \in HashIds |-> <<>>]
    /\ ds_calls = 0
    /\ ds_last = NoDS

\* lines 53-59: one call compute_ds(hash_obj, dnskey); the caller chooses the
\* hash object and the record
ComputeDS(h, k) ==
    /\ ds_calls < MaxCalls
    /\ ds_calls' = ds_calls + 1
    /\ IF k.kind # "DNSKEY"
       THEN /\ ds_last' = [hash |-> h, dnskey |-> k, outcome |-> "Exception",
                           digest |-> Digest(<<>>)]
            /\ UNCHANGED hash_objs
       ELSE LET absorbed == hash_objs[h] \o str_to_owner(k.fqdn) \o k.wire
            IN  /\ hash_objs' = [hash_objs EXCEPT ![h] = absorbed]
                /\ ds_last' = [hash |-> h, dnskey |-> k, outcome |-> "return",
                               digest |-> Digest(absorbed)]
    /\ UNCHANGED <<ovars, vvars>>

---------------------------------------------------------------------------
(* verify_sig *)

signature_grace_time == 7200

NoReason == [text |-> "", args |-> <<>>]
NotYetValid(sg) ==
    [text |-> "RRSIG is not yet valid", args |-> <<sg.timestamp, sg.inception>>]
Expired(sg) ==
    [text |-> "RRSIG has expired", args |-> <<sg.timestamp, sg.expiration>>]
NoMatchingKey == [text |-> "Failed to find a matching DNSKEY", args |-> <<>>]
CouldNotVerify(keys) ==
    [text |-> "Could not verify signature with any of the provided DNSKEYs",
     args |-> [i \in 1..Len(keys) |-> keys[i].tag]]
ValidatedOK == [text |-> "Signature validated OK", args |-> <<>>]

NoRet == [kind |-> "none", exc |-> "", pass |-> FALSE, reason |-> NoReason]
Return(b, r) == [kind |-> "return", exc |-> "", pass |-> b, reason |-> r]
Raise(e) == [kind |-> "raise", exc |-> e, pass |-> FALSE, reason |-> NoReason]

\* lines 71, 75: the validity window
TooEarly(sg) == sg.timestamp < sg.inception - signature_grace_time
TooLate(sg) == sg.timestamp > sg.expiration + signature_grace_time

\* rrset[0].fqdn in the arguments of a log message: IndexError on an empty rrset
FirstOwnerRaises(rs) == Len(rs) = 0

\* the key tag is not compared
IsMatchAnyTag(k, sg) == k.kind = "DNSKEY"

\* lines 82-87: the DNSKEYs whose key tag is the RRSIG's, in dnskeyset order
IsMatch(k, sg) == k.kind = "DNSKEY" /\ k.tag = sg.keytag
RECURSIVE MatchingKeys(_, _)
MatchingKeys(ks, sg) ==
    IF ks = <<>> THEN <<>>
    ELSE (IF IsMatch(Head(ks), sg) THEN <<Head(ks)>> ELSE <<>>)
         \o MatchingKeys(Tail(ks), sg)

\* line 90: [k.keytag() for k in dnskeyset] raises on an entry without a
\* callable keytag
KeytagListRaises(ks) == \E i \in 1..Len(ks) : ks[i].kind # "DNSKEY"

\* the record's own TTL is written instead of the RRSIG's original TTL
RecPrefixRecordTtl(rec, sg) ==
    str_to_owner(rec.fqdn)
    \o FromHex(HexDigits(rec.rectype, 4))
    \o FromHex(<<0, 0, 0, 1>>)
    \o FromHex(HexDigits(rec.ttl, 8))
    \o FromHex(HexDigits(Len(rec.rdata), 4))

\* lines 98-103: what precedes a record's RDATA in the signing input
RecPrefix(rec, sg) ==
    str_to_owner(rec.fqdn)
    \o FromHex(HexDigits(rec.rectype, 4))
    \o FromHex(<<0, 0, 0, 1>>)
    \o FromHex(HexDigits(sg.original_ttl, 8))
    \o FromHex(HexDigits(Len(rec.rdata), 4))

\* lines 96-105: the list of (wire, recwire) pairs
WireRRset(rs, sg) == [i \in 1..Len(rs) |-> <<RecPrefix(rs[i], sg), rs[i].rdata>>]

\* line 108: list.sort(key=lambda x: x[1]) is stable: a pair goes after the
\* pairs before it whose RDATA is not greater
RECURSIVE InsertByRdata(_, _)
InsertByRdata(sorted, p) ==
    IF sorted = <<>> THEN <<p>>
    ELSE IF BytesLess(p[2], Head(sorted)[2])
         THEN <<p>> \o sorted
         ELSE <<Head(sorted)>> \o InsertByRdata(Tail(sorted), p)

\* the pairs are left in the order of the rrset argument
SortByRdataSkipped(ps) == ps

RECURSIVE SortByRdata(_)
SortByRdata(ps) ==
    IF ps = <<>> THEN <<>>
    ELSE InsertByRdata(SortByRdata(SubSeq(ps, 1, Len(ps) - 1)), ps[Len(ps)])

\* lines 111-116: verification data, then wire and rdata of every pair
SigInputData(rs, sg) ==
    LET ps == SortByRdata(WireRRset(rs, sg))
    IN  sg.vdata \o Concat([i \in 1..Len(ps) |-> ps[i][1] \o ps[i][2]])

\* the library's verdict on a signature (ideal signature scheme)
Verifies(key, data, signature) == key.mat = "signer" /\ data = signature

\* lines 123-194: what trying one key comes to
KeyOutcome(key, data, signature) ==
    IF key.alg \in {5, 7, 8, 10}
    THEN \* RSA.construct raises on bad material; verifier.verify returns a bool
         IF key.mat = "malformed" THEN "exception"
         ELSE IF Verifies(key, data, signature) THEN "pass" ELSE "fail"
    ELSE IF key.alg \in {13, 14}
    THEN \* from_string raises on bad material; vk.verify raises BadSignatureError
         IF Verifies(key, data, signature) THEN "pass" ELSE "exception"
    ELSE IF key.alg \in {15}
    THEN \* VerifyKey.verify raises on a bad signature and returns the message
         IF ~Verifies(key, data, signature) THEN "exception"
         ELSE IF data # <<>> THEN "pass" ELSE "fail"
    ELSE IF key.alg \in {16}
    THEN IF key.mat = "malformed" THEN "exception"
         ELSE IF Verifies(key, data, signature) THEN "pass" ELSE "fail"
    ELSE "unsupported"

\* lines 144-194: the diagnostic logged for a key that did not verify
Family(key) ==
    IF key.alg \in {5, 7, 8, 10} THEN "RSA"
    ELSE IF key.alg \in {13, 14} THEN "ECDSA" ELSE "EdDSA"
KeyLogText(key, outcome) ==
    IF outcome = "unsupported"
    THEN <<"Skipped signature validation because algorithm is not supported">>
    ELSE IF outcome = "fail"
    THEN <<"Failed to validate signature", Family(key)>>
    ELSE <<"Exception while validating signature", Family(key)>>

\* lines 122-196: the loop over the matching keys, from keys on
RECURSIVE KeyLoop(_, _, _, _, _)
KeyLoop(keys, all, data, rs, sg) ==
    IF keys = <<>> THEN Return(FALSE, CouldNotVerify(all))
    ELSE IF KeyOutcome(Head(keys), data, sg.signature) = "pass"
         THEN Return(TRUE, ValidatedOK)
         ELSE IF FirstOwnerRaises(rs) THEN Raise("IndexError")
              ELSE KeyLoop(Tail(keys), all, data, rs, sg)

\* lines 66-196: the outcome of one call
verify_sig(rs, ks, sg) ==
    IF sg.kind # "RRSIG" THEN Raise("Exception")
    ELSE IF TooEarly(sg)
    THEN IF FirstOwnerRaises(rs) THEN Raise("IndexError")
         ELSE Return(FALSE, NotYetValid(sg))
    ELSE IF TooLate(sg)
    THEN IF FirstOwnerRaises(rs) THEN Raise("IndexError")
         ELSE Return(FALSE, Expired(sg))
    ELSE IF MatchingKeys(ks, sg) = <<>>
    THEN IF FirstOwnerRaises(rs) THEN Raise("IndexError")
         ELSE IF KeytagListRaises(ks) THEN Raise("TypeError")
         ELSE Return(FALSE, NoMatchingKey)
    ELSE KeyLoop(MatchingKeys(ks, sg), MatchingKeys(ks, sg),
                 SigInputData(rs, sg), rs, sg)

VerifyIdle ==
    /\ rrset = <<>>
    /\ dnskeyset = <<>>
    /\ rrsig = Sig("RRSIG", 0, <<>>)
    /\ pc = "idle"
    /\ matching_keys = <<>>
    /\ sig_input_data = <<>>
    /\ idx = 0
    /\ verify_pass = FALSE
    /\ reason = NoReason
    /\ ret = NoRet
    /\ log = <<>>

VerifyEntry ==
    /\ pc = "entry"
    /\ matching_keys = <<>>
    /\ sig_input_data = <<>>
    /\ idx = 0
    /\ verify_pass = FALSE
    /\ reason = NoReason
    /\ ret = NoRet
    /\ log = <<>>

\* the call ends: it returns r or raises it, after logging msgs
Finish(r, msgs) ==
    /\ ret' = r
    /\ log' = log \o msgs
    /\ pc' = "done"

\* lines 67-68: the type check of the rrsig argument
CheckType ==
    /\ pc = "entry"
    /\ IF rrsig.kind # "RRSIG"
       THEN Finish(Raise("Exception"), <<>>)
       ELSE pc' = "time" /\ UNCHANGED <<ret, log>>
    /\ UNCHANGED <<rrset, dnskeyset, rrsig, matching_keys, sig_input_data, idx,
                   verify_pass, reason, ovars, dvars>>

\* lines 70-77: the validity window
CheckTime ==
    /\ pc = "time"
    /\ IF TooEarly(rrsig) \/ TooLate(rrsig)
       THEN IF FirstOwnerRaises(rrset)
            THEN Finish(Raise("IndexError"), <<>>)
            ELSE IF TooEarly(rrsig)
                 THEN Finish(Return(FALSE, NotYetValid(rrsig)),
                             <<<<"Signature not valid yet">>>>)
                 ELSE Finish(Return(FALSE, Expired(rrsig)),
                             <<<<"Signature expired">>>>)
       ELSE pc' = "collect" /\ UNCHANGED <<ret, log>>
    /\ UNCHANGED <<rrset, dnskeyset, rrsig, matching_keys, sig_input_data, idx,
                   verify_pass, reason, ovars, dvars>>

\* lines 79-91: collect the DNSKEYs with the RRSIG's key tag
CollectKeys ==
    /\ pc = "collect"
    /\ matching_keys' = MatchingKeys(dnskeyset, rrsig)
    /\ IF Len(matching_keys') = 0
       THEN IF FirstOwnerRaises(rrset)
            THEN Finish(Raise("IndexError"), <<>>)
            ELSE IF KeytagListRaises(dnskeyset)
                 THEN Finish(Raise("TypeError"), <<>>)
                 ELSE Finish(Return(FALSE, NoMatchingKey),
                             <<<<"Failed to find a DNSKEY">>>>)
       ELSE pc' = "build" /\ UNCHANGED <<ret, log>>
    /\ UNCHANGED <<rrset, dnskeyset, rrsig, sig_input_data, idx,
                   verify_pass, reason, ovars, dvars>>

\* lines 93-120: the signing input, and the locals of the verification loop
BuildInput ==
    /\ pc = "build"
    /\ sig_input_data' = SigInputData(rrset, rrsig)
    /\ verify_pass' = FALSE
    /\ reason' = CouldNotVerify(matching_keys)
    /\ idx' = 1
    /\ pc' = "verify"
    /\ UNCHANGED <<rrset, dnskeyset, rrsig, matching_keys, ret, log, ovars, dvars>>

\* lines 122-194: one iteration of the loop over the matching keys
TryKey ==
    /\ pc = "verify"
    /\ idx <= Len(matching_keys)
    /\ LET key == matching_keys[idx]
           outcome == KeyOutcome(key, sig_input_data, rrsig.signature)
       IN  IF outcome = "pass"
           THEN /\ verify_pass' = TRUE
                /\ reason' = ValidatedOK
                /\ pc' = "return"
                /\ UNCHANGED <<idx, ret, log>>
           ELSE IF FirstOwnerRaises(rrset)
                THEN /\ Finish(Raise("IndexError"), <<>>)
                     /\ UNCHANGED <<idx, verify_pass, reason>>
                ELSE /\ log' = Append(log, KeyLogText(key, outcome))
                     /\ idx' = idx + 1
                     /\ UNCHANGED <<pc, ret, verify_pass, reason>>
    /\ UNCHANGED <<rrset, dnskeyset, rrsig, matching_keys, sig_input_data,
                   ovars, dvars>>

\* line 196: return verify_pass, reason
ReturnResult ==
    /\ \/ pc = "return"
       \/ pc = "verify" /\ idx > Len(matching_keys)
    /\ Finish(Return(verify_pass, reason), <<>>)
    /\ UNCHANGED <<rrset, dnskeyset, rrsig, matching_keys, sig_input_data, idx,
                   verify_pass, reason, ovars, dvars>>

---------------------------------------------------------------------------
(* Inputs of the checked calls *)

\* timestamps on both sides of both edges of the validity window
Timestamps == {2799, 2800, 27200, 27201}

\* signing inputs a signature was made over: of the empty RRset, of the one
\* record a. A 1 and of the two records a. A 1 and a. A 200
CoveredNone == <<7>>
CoveredOne == <<7, 1, 97, 0, 0, 1, 0, 1, 0, 0, 1, 44, 0, 1, 1>>
CoveredTwo ==
    <<7, 1, 97, 0, 0, 1, 0, 1, 0, 0, 1, 44, 0, 1, 1,
         1, 97, 0, 0, 1, 0, 1, 0, 0, 1, 44, 0, 1, 200>>

Algorithms == {3, 5, 7, 8, 10, 13, 14, 15, 16, 17}

\* dnskeyset entries: the signing key under every algorithm; a different key
\* and malformed material under one algorithm of each family; the signing key
\* under another key tag; a record of another type
KeyPool ==
    {Key("DNSKEY", 1, a, "signer") : a \in Algorithms}
    \cup {Key("DNSKEY", 1, a, m) : a \in {8, 13, 15, 16}, m \in {"other", "malformed"}}
    \cup {Key("DNSKEY", 2, 8, "signer"), Key("RRSIG", 1, 8, "signer")}

Sigs ==
    {Sig("RRSIG", ts, cov) : ts \in Timestamps, cov \in {CoveredNone, CoveredOne}}
    \cup {Sig("DNSKEY", 2800, CoveredOne)}

OneRecord == {Rec(<<97, 46>>, 1, <<1>>)}

\* calls with many key sets, over RRsets of one record repeated
Init ==
    /\ OwnerIdle
    /\ DSIdle
    /\ rrset \in SeqsUpTo(OneRecord, MaxRR)
    /\ dnskeyset \in SeqsUpTo(KeyPool, MaxKeys)
    /\ rrsig \in Sigs
    /\ VerifyEntry

Records ==
    {Rec(f, 1, r) : f \in {<<97, 46>>, <<66, 46>>}, r \in {<<1>>, <<1, 0>>, <<200>>}}

FewKeys ==
    {Key("DNSKEY", 1, 8, "signer"), Key("DNSKEY", 1, 13, "other"),
     Key("DNSKEY", 1, 3, "signer")}

InputSigs ==
    {Sig("RRSIG", ts, cov) : ts \in {2800, 27201},
                             cov \in {CoveredNone, CoveredOne, CoveredTwo}}
    \cup {Sig("DNSKEY", 2800, CoveredOne)}

\* calls with many RRsets, over a few key sets
InitInput ==
    /\ OwnerIdle
    /\ DSIdle
    /\ rrset \in SeqsUpTo(Records, MaxRR)
    /\ dnskeyset \in SeqsUpTo(FewKeys, MaxKeys)
    /\ rrsig \in InputSigs
    /\ VerifyEntry

InitDS ==
    /\ OwnerIdle
    /\ VerifyIdle
    /\ DSIdle

InitOwnerSpec == InitOwner /\ DSIdle /\ VerifyIdle

Next == CheckType \/ CheckTime \/ CollectKeys \/ BuildInput \/ TryKey \/ ReturnResult
NextOwner == OwnerStart \/ OwnerLabel \/ OwnerFinish
NextDS == \E h \in HashIds, k \in DSArgs : ComputeDS(h, k)

Spec == Init /\ [][Next]_vars
SpecInput == InitInput /\ [][Next]_vars
SpecOwner == InitOwnerSpec /\ [][NextOwner]_vars
SpecDS == InitDS /\ [][NextDS]_vars

\* the step-by-step call ends as the function of its arguments says
StepsAgree == pc = "done" => ret = verify_sig(rrset, dnskeyset, rrsig)
OwnerStepsAgree == opc = "done" => owner_name = str_to_owner(name)

---------------------------------------------------------------------------
(* Properties *)

SupportedAlgorithms == {5, 7, 8, 10, 13, 14, 15, 16}
Called == pc = "done" /\ rrsig.kind = "RRSIG"
Returned == Called /\ ret.kind = "return"
InWindow(sg) ==
    /\ sg.timestamp >= sg.inception - 7200
    /\ sg.timestamp <= sg.expiration + 7200

\* C1: verify_sig returns True only if some entry of dnskeyset is a DNSKEY with
\* the RRSIG's key tag and a supported algorithm whose verifier accepts the
\* signature over the signing input; the reason is "Signature validated OK"
\* exactly when the boolean is True
C1_TrueOnlyByMatchingKey ==
    Returned =>
        /\ ret.pass =>
             \E i \in 1..Len(dnskeyset) :
                /\ dnskeyset[i].kind = "DNSKEY"
                /\ dnskeyset[i].tag = rrsig.keytag
                /\ dnskeyset[i].alg \in SupportedAlgorithms
                /\ dnskeyset[i].mat = "signer"
                /\ rrsig.signature = SigInputData(rrset, rrsig)
        /\ ret.pass <=> ret.reason.text = "Signature validated OK"

\* a call that returned True although its first entry has another key tag
C1_Witness ==
    /\ Returned
    /\ ret.pass
    /\ Len(dnskeyset) = 2
    /\ dnskeyset[1].tag # rrsig.keytag
    /\ dnskeyset[1].mat = "signer"

TimeWindowReasons == {"RRSIG is not yet valid", "RRSIG has expired"}

\* C2: the call returns False with a time-window reason exactly when
\* timestamp < inception - 7200 or timestamp > expiration + 7200, before any
\* key is matched; at the edges the keys decide, one second outside the call
\* returns False whatever the keys are
C2_TimeWindowDecides ==
    Called =>
        /\ ( /\ ret.kind = "return"
             /\ ~ret.pass
             /\ ret.reason.text \in TimeWindowReasons )
           <=> ~InWindow(rrsig)
        /\ ~InWindow(rrsig) => matching_keys = <<>> /\ sig_input_data = <<>>

\* the same for calls with a record in the RRset
C2_NonEmptyRRset == rrset # <<>> => C2_TimeWindowDecides

\* C3: inside the time window the call returns True if any DNSKEY with the
\* RRSIG's key tag verifies the signature, whatever keys come before it
C3_AnyVerifyingKeyWins ==
    ( /\ Called
      /\ InWindow(rrsig)
      /\ \E i \in 1..Len(dnskeyset) :
            /\ dnskeyset[i].kind = "DNSKEY"
            /\ dnskeyset[i].tag = rrsig.keytag
            /\ KeyOutcome(dnskeyset[i], SigInputData(rrset, rrsig),
                          rrsig.signature) = "pass" )
    => ret.kind = "return" /\ ret.pass

\* the same for calls with a record in the RRset
C3_NonEmptyRRset == rrset # <<>> => C3_AnyVerifyingKeyWins

\* C4: every call whose rrsig argument is an RRSIG ends by returning a
\* (bool, reason) pair; no exception escapes
C4_NoExceptionEscapes == Called => ret.kind = "return"

\* the same for calls with a record in the RRset and only DNSKEYs in dnskeyset
C4_NonEmptyRRset ==
    rrset # <<>> /\ ~KeytagListRaises(dnskeyset) => C4_NoExceptionEscapes

Homogeneous(rs) ==
    \A i, j \in 1..Len(rs) : rs[i].fqdn = rs[j].fqdn /\ rs[i].rectype = rs[j].rectype

Reordered(rs) == {[i \in 1..Len(rs) |-> rs[q[i]]] : q \in Permutations(1..Len(rs))}

\* C5: for a homogeneous RRset every permutation of its records gives the same
\* signing input and the same outcome of verify_sig
C5_OrderIndependent ==
    pc = "done" /\ Homogeneous(rrset) =>
        \A p \in Reordered(rrset) :
            /\ SigInputData(p, rrsig) = SigInputData(rrset, rrsig)
            /\ idx >= 1 => SigInputData(p, rrsig) = sig_input_data
            /\ verify_sig(p, dnskeyset, rrsig) = ret

\* a validated call whose two records were given in descending RDATA order
C5_Witness ==
    /\ Returned
    /\ ret.pass
    /\ Homogeneous(rrset)
    /\ Len(rrset) = 2
    /\ BytesLess(rrset[2].rdata, rrset[1].rdata)

\* big-endian unsigned integers
U16(n) == <<(n \div 256) % 256, n % 256>>
U32(n) == U16(n \div 65536) \o U16(n % 65536)

\* a sorts before b as unsigned byte strings: at the first place where they
\* differ a is smaller, or a is a proper prefix of b
LexBefore(a, b) ==
    \E k \in 1..Len(b) :
        /\ \A i \in 1..(k - 1) : i <= Len(a) /\ a[i] = b[i]
        /\ k - 1 <= Len(a)
        /\ (k > Len(a) \/ a[k] < b[k])

SignedRecord(rec, sg) ==
    str_to_owner(rec.fqdn) \o U16(rec.rectype) \o <<0, 1>> \o U32(sg.original_ttl)
    \o U16(Len(rec.rdata)) \o rec.rdata

\* C6: the signing input is the RRSIG's verification data followed, for each
\* record in ascending unsigned byte order of its RDATA, by owner name, type,
\* class 1, the RRSIG's original TTL, RDATA length and RDATA
C6_SigningInputLayout ==
    idx >= 1 =>
        \E q \in Permutations(1..Len(rrset)) :
            /\ \A i, j \in 1..Len(rrset) :
                  i < j => ~LexBefore(rrset[q[j]].rdata, rrset[q[i]].rdata)
            /\ sig_input_data =
                  rrsig.vdata
                  \o Concat([i \in 1..Len(rrset) |-> SignedRecord(rrset[q[i]], rrsig)])

\* a signing input built from two records given in descending order, the
\* RDATA of one a proper prefix of the other's
C6_Witness ==
    /\ idx >= 1
    /\ Len(rrset) = 2
    /\ rrset[1].rdata = <<1, 0>>
    /\ rrset[2].rdata = <<1>>
    /\ rrset[1].fqdn = <<66, 46>>

NotSupportedTexts ==
    {"Skipped signature validation because algorithm is not supported"}

\* C7: when every DNSKEY matching the key tag has an unsupported algorithm the
\* call returns False with a reason that mentions "not supported", and raises
\* nothing
C7_UnsupportedReason ==
    ( /\ Called
      /\ InWindow(rrsig)
      /\ MatchingKeys(dnskeyset, rrsig) # <<>>
      /\ \A i \in 1..Len(dnskeyset) :
            IsMatch(dnskeyset[i], rrsig) => dnskeyset[i].alg \notin SupportedAlgorithms )
    => /\ ret.kind = "return"
       /\ ~ret.pass
       /\ ret.reason.text \in NotSupportedTexts

\* what the code does there when the RRset has a record: the reason lists the
\* key tags, the words "not supported" go to the log
C7_UnsupportedLogged ==
    ( /\ Called
      /\ rrset # <<>>
      /\ InWindow(rrsig)
      /\ MatchingKeys(dnskeyset, rrsig) # <<>>
      /\ \A i \in 1..Len(dnskeyset) :
            IsMatch(dnskeyset[i], rrsig) => dnskeyset[i].alg \notin SupportedAlgorithms )
    => /\ ret = Return(FALSE, CouldNotVerify(MatchingKeys(dnskeyset, rrsig)))
       /\ Len(log) = Len(MatchingKeys(dnskeyset, rrsig))
       /\ \A i \in 1..Len(log) : log[i][1] \in NotSupportedTexts

\* presentation format: a backslash escapes the character after it
RECURSIVE EscapesComplete(_)
EscapesComplete(s) ==
    IF s = <<>> THEN TRUE
    ELSE IF Head(s) = 92
         THEN Len(s) >= 2 /\ s[2] \in {46, 92} /\ EscapesComplete(Tail(Tail(s)))
         ELSE EscapesComplete(Tail(s))

\* the labels of a presentation name: split at the dots no backslash escapes,
\* escaped characters taken literally
RECURSIVE PresentationLabels(_, _)
PresentationLabels(s, cur) ==
    IF s = <<>> THEN <<cur>>
    ELSE IF Head(s) = 92 /\ Len(s) >= 2
         THEN PresentationLabels(Tail(Tail(s)), Append(cur, s[2]))
         ELSE IF Head(s) = 46
              THEN <<cur>> \o PresentationLabels(Tail(s), <<>>)
              ELSE PresentationLabels(Tail(s), Append(cur, LowerChar(Head(s))))

\* valid names: complete escapes of a dot or a backslash, and no empty label
\* but the root
ValidName(n) ==
    LET ls == PresentationLabels(n, <<>>)
    IN  /\ EscapesComplete(n)
        /\ n = Dot \/ \A i \in 1..(Len(ls) - 1) : ls[i] # <<>>

RECURSIVE LabelsToWire(_)
LabelsToWire(ls) ==
    IF ls = <<>> THEN <<0>>
    ELSE (IF Head(ls) = <<>> THEN <<>> ELSE <<Len(Head(ls))>> \o Head(ls))
         \o LabelsToWire(Tail(ls))

\* C8: str_to_owner splits a valid name on exactly its unescaped dots, keeps an
\* escaped dot inside its label as a literal dot, takes a dot after an escaped
\* backslash as a separator, and emits each label as its length and its bytes,
\* with one zero byte at the end
C8_SplitsOnUnescapedDots ==
    opc = "done" /\ ValidName(name) =>
        owner_name = LabelsToWire(PresentationLabels(name, <<>>))

\* the same for names in which no backslash is escaped
C8_NoEscapedBackslash ==
    (\A i \in 1..(Len(name) - 1) : ~(name[i] = 92 /\ name[i + 1] = 92))
    => C8_SplitsOnUnescapedDots

CaseOf(c) ==
    IF c \in 65..90 THEN {c, c + 32} ELSE IF c \in 97..122 THEN {c, c - 32} ELSE {c}

\* the names that differ from s in letter case only
RECURSIVE CaseVariants(_)
CaseVariants(s) ==
    IF s = <<>> THEN {<<>>}
    ELSE {<<c>> \o r : c \in CaseOf(Head(s)), r \in CaseVariants(Tail(s))}

\* C9 as stated: str_to_owner applied to its own output (the bytes read as
\* characters) gives the same bytes, and names that differ in letter case
\* only give the same bytes
C9_IdempotentAndCaseInsensitive ==
    opc = "done" /\ ValidName(name) =>
        /\ str_to_owner(owner_name) = owner_name
        /\ \A n \in CaseVariants(name) : str_to_owner(n) = owner_name

\* C9 as amended: names that differ in letter case only give the same bytes
C9_CaseInsensitive ==
    opc = "done" => \A n \in CaseVariants(name) : str_to_owner(n) = owner_name

\* a valid name of two labels with a capital letter
C9_Witness ==
    /\ opc = "done"
    /\ ValidName(name)
    /\ name = <<65, 46, 97>>
    /\ Cardinality(CaseVariants(name)) = 4

\* C10: the digest a compute_ds call returns is the hash of the canonical
\* owner name followed by the DNSKEY's wire RDATA and nothing else, whatever
\* calls came before; a record that is no DNSKEY raises
C10_DigestOfThisKeyOnly ==
    /\ ds_last.outcome = "return" =>
          ds_last.digest = Digest(str_to_owner(ds_last.dnskey.fqdn) \o ds_last.dnskey.wire)
    /\ ds_calls > 0 /\ ds_last.dnskey.kind # "DNSKEY" => ds_last.outcome = "Exception"

====
